---------------------------- MODULE Spec2Model ----------------------------
(***************************************************************************)
(* The persisted state store of term-core (crates/term-core/src/lib.rs):   *)
(* the process-wide STORE and its lazy initialisation, its lock, the       *)
(* handlers that read and mutate it, Store::persist, and the directory     *)
(* search.                                                                 *)
(*                                                                         *)
(* Strings are sequences of character codes (32 = space, 47 = "/",         *)
(* 65..90 = "A".."Z", 97..122 = "a".."z", 126 = "~"), so that trimming and *)
(* ASCII case folding are computed and not assumed.                        *)
(***************************************************************************)
EXTENDS Integers, Sequences, FiniteSets, TLC

VARIABLES
    store,      \* STORE.inner: the PersistedState behind the mutex
    disk,       \* the state file: NoFile or the aggregate last written
    lock,       \* owner of STORE.inner (0: free)
    pc,         \* per thread: where it is in its call
    call,       \* per thread: the handler it runs and its arguments
    local,      \* per thread: the handler's locals (normalized path, profile)
    result,     \* per thread: what its last finished call returned
    now,        \* Utc::now().timestamp(), in seconds
    ticks,      \* how many times the clock has advanced on its own
    last,       \* history: the last critical section that ran, and the store before it
    touched,    \* history: the (path, time) of every touch_recent that reached the store
    cell,       \* the Lazy cell of STORE: uninitialised, initialising, or initialised
    tree        \* the entries the directory walker yields under the search root, in order

vars == <<store, disk, lock, pc, call, local, result, now, ticks, last, touched, cell, tree>>

-----------------------------------------------------------------------------
(* Bounds of the model *)

NumThreads == 2
NumUuids == 2
MaxTouches == 4
MaxTicks == 3
MaxEntries == 3
MaxLimit == 2

Threads == 1..NumThreads

-----------------------------------------------------------------------------
(* Sequences *)

Min(a, b) == IF a <= b THEN a ELSE b

\* Vec::truncate(n)
Truncate(s, n) == SubSeq(s, 1, Min(n, Len(s)))

\* Iterator::find over the places of a Vec: the first of them, 0 when there is none.
FirstOf(places) ==
    IF places = {} THEN 0 ELSE CHOOSE i \in places : \A j \in places : i <= j

-----------------------------------------------------------------------------
(* Strings *)

Whitespace == {9, 10, 11, 12, 13, 32}

RECURSIVE TrimStart(_)
TrimStart(s) ==
    IF s # <<>> /\ Head(s) \in Whitespace THEN TrimStart(Tail(s)) ELSE s

RECURSIVE TrimEnd(_)
TrimEnd(s) ==
    IF s # <<>> /\ s[Len(s)] \in Whitespace THEN TrimEnd(SubSeq(s, 1, Len(s) - 1)) ELSE s

\* str::trim
Trim(s) == TrimEnd(TrimStart(s))

\* u8::to_ascii_lowercase
ToAsciiLower(c) == IF c \in 65..90 THEN c + 32 ELSE c

\* Mutant: the tags are compared as they are written.
EqExactCase(a, b) == a = b

\* str::eq_ignore_ascii_case
EqIgnoreAsciiCase(a, b) ==
    /\ Len(a) = Len(b)
    /\ \A i \in 1..Len(a) : ToAsciiLower(a[i]) = ToAsciiLower(b[i])

RECURSIVE TrimStartMatches(_, _)
\* str::trim_start_matches(c)
TrimStartMatches(s, c) ==
    IF s # <<>> /\ Head(s) = c THEN TrimStartMatches(Tail(s), c) ELSE s

-----------------------------------------------------------------------------
(* Option<T>: <<>> is None, <<v>> is Some(v) *)

None == <<>>
Some(v) == <<v>>
UnwrapOr(o, d) == IF o = <<>> THEN d ELSE o[1]

-----------------------------------------------------------------------------
(* normalize_path and the environment it reads *)

\* dirs::home_dir(): Some("/h")
HomeDir == Some(<<47, 104>>)

\* PathBuf::join: an absolute argument replaces the base; an empty one adds a
\* trailing separator.
PathJoin(base, rel) ==
    IF rel # <<>> /\ Head(rel) = 47 THEN rel
    ELSE IF base # <<>> /\ base[Len(base)] = 47 THEN base \o rel
    ELSE base \o <<47>> \o rel

\* std::fs::canonicalize over the model's file system: "/a", "/b", "/h" exist,
\* "/l" is a symbolic link to "/a"; every other path does not exist (Err -> None).
Canonicalize(p) ==
    CASE p = <<47, 108>> -> Some(<<47, 97>>)
      [] p = <<47, 104, 47>> -> Some(<<47, 104>>)
      [] p \in {<<47, 97>>, <<47, 98>>, <<47, 104>>} -> Some(p)
      [] OTHER -> None

\* normalize_path: Err is None, Ok(path) is Some(path).
normalize_path(input) ==
    LET trimmed == Trim(input)
        expanded == IF trimmed # <<>> /\ Head(trimmed) = 126
                    THEN IF HomeDir # None
                         THEN PathJoin(HomeDir[1], TrimStartMatches(trimmed, 126))
                         ELSE trimmed
                    ELSE trimmed
    IN  IF trimmed = <<>> THEN None
        ELSE Some(UnwrapOr(Canonicalize(expanded), expanded))

-----------------------------------------------------------------------------
(* The aggregate *)

\* PersistedState::default
EmptyState == [favorites |-> <<>>, recents |-> <<>>, tags |-> <<>>, profiles |-> <<>>]

RecentEntry(path, t) == [path |-> path, last_opened_utc |-> t]

TaggedPath(path, tag, color) == [path |-> path, tag |-> tag, color |-> color]

\* Mutant: no upper limit.
ClampBelow(v, lo, hi) == IF v < lo THEN lo ELSE v

Clamp(v, lo, hi) == IF v < lo THEN lo ELSE IF v > hi THEN hi ELSE v

\* The LaunchProfile save_profile builds from its arguments.
LaunchProfile(id, name, opts, windows) ==
    [id |-> id, name |-> Trim(name), command |-> opts.command,
     working_dir |-> opts.working_dir, terminal |-> opts.terminal,
     windows |-> Clamp(UnwrapOr(windows, 1), 1, 10)]

-----------------------------------------------------------------------------
(* The handlers' critical sections: what each does to its collection while *)
(* it holds STORE.inner.                                                   *)

\* Mutant: push without looking for the path.
add_favorite_unchecked(favorites, normalized) == Append(favorites, normalized)

\* add_favorite: push unless some entry equals the normalized path.
add_favorite(favorites, normalized) ==
    IF ~(\E i \in 1..Len(favorites) : favorites[i] = normalized)
    THEN Append(favorites, normalized)
    ELSE favorites

\* remove_favorite: retain the entries that differ from the path.
remove_favorite(favorites, normalized) ==
    SelectSeq(favorites, LAMBDA p : p # normalized)

RECURSIVE InsertByTimeAsc(_, _)
\* Mutant: the comparison the other way round, an ascending sort.
InsertByTimeAsc(sorted, x) ==
    IF sorted = <<>> THEN <<x>>
    ELSE IF Head(sorted).last_opened_utc <= x.last_opened_utc
         THEN <<Head(sorted)>> \o InsertByTimeAsc(Tail(sorted), x)
         ELSE <<x>> \o sorted

RECURSIVE InsertByTimeDesc(_, _)
\* x goes after every element whose time is >= its own (the sort is stable).
InsertByTimeDesc(sorted, x) ==
    IF sorted = <<>> THEN <<x>>
    ELSE IF Head(sorted).last_opened_utc >= x.last_opened_utc
         THEN <<Head(sorted)>> \o InsertByTimeDesc(Tail(sorted), x)
         ELSE <<x>> \o sorted

RECURSIVE SortByTimeDescFrom(_, _)
SortByTimeDescFrom(sorted, rest) ==
    IF rest = <<>> THEN sorted
    ELSE SortByTimeDescFrom(InsertByTimeDesc(sorted, Head(rest)), Tail(rest))

\* sort_by(|a, b| b.last_opened_utc.cmp(&a.last_opened_utc)): stable, descending.
SortByTimeDesc(s) == SortByTimeDescFrom(<<>>, s)

\* The cap on recents. The code's cap is 100 (recents.len() > 100, truncate(100));
\* the model runs the same algorithm with a cap that a few touches exceed.
RecentCap == 3

\* Mutant: the path's old entry is not dropped, and the cut comes one entry late.
touch_recent_keeping(recents, normalized, t) ==
    LET pushed == Append(recents, RecentEntry(normalized, t))
    IN  IF Len(pushed) > RecentCap + 1
        THEN SubSeq(pushed, 1, RecentCap + 1)
        ELSE pushed

\* touch_recent: drop the path's entry, push a new one, sort and cut past the cap.
touch_recent(recents, normalized, t) ==
    LET retained == SelectSeq(recents, LAMBDA entry : entry.path # normalized)
        pushed == Append(retained, RecentEntry(normalized, t))
    IN  IF Len(pushed) > RecentCap
        THEN Truncate(SortByTimeDesc(pushed), RecentCap)
        ELSE pushed

\* list_recent_directories, after the clone: sorted by time, descending.
list_recent_directories(recents) == SortByTimeDesc(recents)

\* color.unwrap_or("#0a84ff")
DefaultColor == <<35, 48, 97, 56, 52, 102, 102>>

TagMatches(entry, normalized, tag) ==
    entry.path = normalized /\ EqIgnoreAsciiCase(entry.tag, tag)

\* Mutant: the matching entry is overwritten with the tag as it is given now.
set_tag_replacing(tags, normalized, tag, color) ==
    LET c == UnwrapOr(color, DefaultColor)
        i == FirstOf({k \in 1..Len(tags) : TagMatches(tags[k], normalized, tag)})
    IN  IF i # 0
        THEN [tags EXCEPT ![i] = TaggedPath(normalized, tag, c)]
        ELSE Append(tags, TaggedPath(normalized, tag, c))

\* set_tag: recolor the first matching entry, or push a new one.
set_tag(tags, normalized, tag, color) ==
    LET c == UnwrapOr(color, DefaultColor)
        i == FirstOf({k \in 1..Len(tags) : TagMatches(tags[k], normalized, tag)})
    IN  IF i # 0
        THEN [tags EXCEPT ![i].color = c]
        ELSE Append(tags, TaggedPath(normalized, tag, c))

\* remove_tag: retain the entries that do not match.
remove_tag(tags, normalized, tag) ==
    SelectSeq(tags, LAMBDA entry : ~TagMatches(entry, normalized, tag))

\* Mutant: always push.
save_profile_pushing(profiles, profile) == Append(profiles, profile)

\* save_profile: overwrite the first profile with the id, or push.
save_profile(profiles, profile) ==
    LET i == FirstOf({k \in 1..Len(profiles) : profiles[k].id = profile.id})
    IN  IF i # 0
        THEN [profiles EXCEPT ![i] = profile]
        ELSE Append(profiles, profile)

\* Mutant: the predicate of retain the wrong way round.
delete_profile_inverted(profiles, id) ==
    SelectSeq(profiles, LAMBDA profile : profile.id = id)

\* delete_profile: retain the profiles with another id.
delete_profile(profiles, id) ==
    SelectSeq(profiles, LAMBDA profile : profile.id # id)

-----------------------------------------------------------------------------
(* search_directories: the walk, the matcher and the ranking *)

\* usize::MAX, scaled to the largest integer TLC represents.
UsizeMax == 2147483647

\* usize::saturating_mul
SaturatingMul(a, b) == IF b # 0 /\ a > UsizeMax \div b THEN UsizeMax ELSE a * b

Max(a, b) == IF a >= b THEN a ELSE b

\* str::cmp: bytewise lexicographic order, strictly less.
RECURSIVE StrLess(_, _)
StrLess(a, b) ==
    IF b = <<>> THEN FALSE
    ELSE IF a = <<>> THEN TRUE
    ELSE IF Head(a) # Head(b) THEN Head(a) < Head(b)
    ELSE StrLess(Tail(a), Tail(b))

\* The matcher's smart case: a pattern without capitals ignores case.
CharMatches(nameChar, queryChar, ignoreCase) ==
    IF ignoreCase THEN ToAsciiLower(nameChar) = queryChar ELSE nameChar = queryChar

\* The pattern's characters occur in the name, in order.
RECURSIVE IsSubsequence(_, _, _)
IsSubsequence(query, name, ignoreCase) ==
    IF query = <<>> THEN TRUE
    ELSE IF name = <<>> THEN FALSE
    ELSE IF CharMatches(Head(name), Head(query), ignoreCase)
         THEN IsSubsequence(Tail(query), Tail(name), ignoreCase)
         ELSE IsSubsequence(query, Tail(name), ignoreCase)

\* SkimMatcherV2::fuzzy_match(name, query): None unless the pattern is a subsequence
\* of the name. The score is a function of the name and the pattern alone; the one
\* here (more for every matched character, less for every other) stands for skim's.
fuzzy_match(name, query) ==
    IF IsSubsequence(query, name, \A i \in 1..Len(query) : query[i] \notin 65..90)
    THEN Some(16 * Len(query) - (Len(name) - Len(query)))
    ELSE None

SearchResult(path, name, score) == [path |-> path, name |-> name, score |-> score]

\* An entry the walker yields: its file name (None when it is not UTF-8) and what
\* metadata() says of it: "dir", "file", or "err" when metadata() fails. Its path
\* is its place in the walk.
WalkEntry(name, md) == [name |-> name, md |-> md]

\* Mutant: the candidates are counted after the one in hand has been looked at.
WalkFullLate(results, limit) == Len(results) > SaturatingMul(limit, 2)

\* results.len() >= limit.saturating_mul(2): the walk breaks.
WalkFull(results, limit) == Len(results) >= SaturatingMul(limit, 2)

\* Mutant: every entry with a name that matches is a candidate, directory or not.
visit_any(results, entry, place, query) ==
    IF entry.name = None \/ fuzzy_match(UnwrapOr(entry.name, <<>>), query) = None
    THEN results
    ELSE Append(results, SearchResult(place, entry.name[1],
                                      fuzzy_match(entry.name[1], query)[1]))

\* The body of the loop for one entry: skipped unless its metadata can be read, it
\* is a directory and its name is UTF-8; pushed when the matcher scores it.
visit(results, entry, place, query) ==
    IF entry.md # "dir" THEN results
    ELSE IF entry.name = None THEN results
    ELSE LET score == fuzzy_match(entry.name[1], query)
         IN  IF score = None THEN results
             ELSE Append(results, SearchResult(place, entry.name[1], score[1]))

\* b.score.cmp(&a.score).then(a.name.cmp(&b.name)) is Less: a sorts before b.
RanksBefore(a, b) ==
    a.score > b.score \/ (a.score = b.score /\ StrLess(a.name, b.name))

\* Mutant: the lower score first.
RECURSIVE InsertByRankAsc(_, _)
InsertByRankAsc(sorted, x) ==
    IF sorted = <<>> THEN <<x>>
    ELSE IF RanksBefore(Head(sorted), x) THEN <<x>> \o sorted
    ELSE <<Head(sorted)>> \o InsertByRankAsc(Tail(sorted), x)

\* sort_by is stable: x goes behind every entry it does not rank before.
RECURSIVE InsertByRank(_, _)
InsertByRank(sorted, x) ==
    IF sorted = <<>> THEN <<x>>
    ELSE IF RanksBefore(x, Head(sorted)) THEN <<x>> \o sorted
    ELSE <<Head(sorted)>> \o InsertByRank(Tail(sorted), x)

RECURSIVE SortByRankFrom(_, _)
SortByRankFrom(sorted, rest) ==
    IF rest = <<>> THEN sorted
    ELSE SortByRankFrom(InsertByRank(sorted, Head(rest)), Tail(rest))

SortByRank(results) == SortByRankFrom(<<>>, results)

\* After the loop: results.sort_by(..); results.truncate(limit.max(1)).
rank_and_truncate(results, limit) == Truncate(SortByRank(results), Max(limit, 1))

\* The loop from the entry after pos on, until the walker is exhausted or the
\* candidates are full.
RECURSIVE walk_from(_, _, _, _, _)
walk_from(results, pos, entries, query, limit) ==
    IF pos < Len(entries) /\ ~WalkFull(results, limit)
    THEN walk_from(visit(results, entries[pos + 1], pos + 1, query), pos + 1,
                   entries, query, limit)
    ELSE results

\* search_directories past its validation, as a function of what the walker yields.
search_directories(entries, query, limit) ==
    rank_and_truncate(walk_from(<<>>, 0, entries, query, limit), limit)

-----------------------------------------------------------------------------
(* Calls: a handler and its arguments *)

\* Raw path arguments: " ", "/a", " /a", "/b", "/l" (a link to "/a"), "~".
RawPaths == {<<32>>, <<47, 97>>, <<32, 47, 97>>, <<47, 98>>, <<47, 108>>, <<126>>}

\* Tag arguments: "W", "w", "h".
Tags == {<<87>>, <<119>>, <<104>>}

\* Color arguments: None, "#f", "#0".
Colors == {None, Some(<<35, 102>>), Some(<<35, 48>>)}

Uuids == 1..NumUuids

\* Profile names: " ", "x", " y ".
Names == {<<32>>, <<120>>, <<32, 121, 32>>}

\* windows: Option<u8>
WindowsArgs == {None, Some(0), Some(1), Some(10), Some(11), Some(255)}

\* command, working_dir, terminal: all None, or all given.
NoOpts == [command |-> None, working_dir |-> None, terminal |-> None]
ProfileOpts ==
    {NoOpts, [command |-> Some(<<108, 115>>), working_dir |-> Some(<<47, 97>>),
              terminal |-> Some(<<116>>)]}

NoCall ==
    [op |-> "none", path |-> <<>>, tag |-> <<>>, color |-> None, id |-> None,
     name |-> <<>>, opts |-> NoOpts, windows |-> None, query |-> <<>>, limit |-> 0]

PathCalls(op, raws) == {[NoCall EXCEPT !.op = op, !.path = raw] : raw \in raws}

SetTagCalls(raws, tags, colors) ==
    {[NoCall EXCEPT !.op = "set_tag", !.path = raw, !.tag = tag, !.color = color] :
        raw \in raws, tag \in tags, color \in colors}

RemoveTagCalls(raws, tags) ==
    {[NoCall EXCEPT !.op = "remove_tag", !.path = raw, !.tag = tag] :
        raw \in raws, tag \in tags}

SaveProfileCalls(ids, names, optss, windowss) ==
    {[NoCall EXCEPT !.op = "save_profile", !.id = id, !.name = name, !.opts = opts,
                    !.windows = windows] :
        id \in ids, name \in names, opts \in optss, windows \in windowss}

DeleteProfileCalls(ids) ==
    {[NoCall EXCEPT !.op = "delete_profile", !.id = Some(u)] : u \in ids}

ReadCalls == {[NoCall EXCEPT !.op = "list_recent_directories"]}

SearchCalls(raws, queries, limits) ==
    {[NoCall EXCEPT !.op = "search", !.path = raw, !.query = query, !.limit = limit] :
        raw \in raws, query \in queries, limit \in limits}

PathOps == {"add_favorite", "remove_favorite", "touch_recent", "set_tag", "remove_tag"}

MutatingOps == PathOps \cup {"save_profile", "delete_profile"}

\* Mutant: the arguments are taken as they come.
ValidatesAnything(c) == TRUE

\* What a handler checks before it takes the lock: normalize_path(path)?, or
\* save_profile's name.trim().is_empty(); and search_directories before it walks:
\* query.trim().is_empty(), then normalize_path(path)?.
Validates(c) ==
    CASE c.op \in PathOps -> normalize_path(c.path) # None
      [] c.op = "save_profile" -> Trim(c.name) # <<>>
      [] c.op = "search" -> Trim(c.query) # <<>> /\ normalize_path(c.path) # None
      [] OTHER -> TRUE

Normalized(c) ==
    IF c.op \in PathOps \cup {"search"} THEN UnwrapOr(normalize_path(c.path), <<>>) ELSE <<>>

\* Uuid::new_v4(): an id no stored profile has.
NewV4(profiles) == {u \in Uuids : \A i \in 1..Len(profiles) : profiles[i].id # u}

\* The ids save_profile may end up with: id.unwrap_or_else(Uuid::new_v4).
ProfileIds(c, profiles) == IF c.id # None THEN {c.id[1]} ELSE NewV4(profiles)

\* The aggregate after call c's critical section; n is its normalized path, u the
\* profile id, t the clock.
Effect(c, n, u, s, t) ==
    CASE c.op = "add_favorite" -> [s EXCEPT !.favorites = add_favorite(@, n)]
      [] c.op = "remove_favorite" -> [s EXCEPT !.favorites = remove_favorite(@, n)]
      [] c.op = "touch_recent" -> [s EXCEPT !.recents = touch_recent(@, n, t)]
      [] c.op = "set_tag" -> [s EXCEPT !.tags = set_tag(@, n, c.tag, c.color)]
      [] c.op = "remove_tag" -> [s EXCEPT !.tags = remove_tag(@, n, c.tag)]
      [] c.op = "save_profile" ->
            [s EXCEPT !.profiles = save_profile(@, LaunchProfile(u, c.name, c.opts, c.windows))]
      [] c.op = "delete_profile" -> [s EXCEPT !.profiles = delete_profile(@, c.id[1])]
      [] OTHER -> s

\* Mutant: every mutating handler goes on to STORE.persist(), whatever it did.
PersistsAlways(c, n, s) == c.op \in MutatingOps

\* Whether the handler goes on to STORE.persist(): add_favorite only after a push,
\* delete_profile only after a removal, every other mutating handler always.
Persists(c, n, s) ==
    CASE c.op = "add_favorite" -> add_favorite(s.favorites, n) # s.favorites
      [] c.op = "delete_profile" ->
            Len(delete_profile(s.profiles, c.id[1])) # Len(s.profiles)
      [] c.op \in MutatingOps -> TRUE
      [] OTHER -> FALSE

\* anyhow::Result: Ok(value) or Err(message). The value is a sequence: empty for
\* (), the profile for save_profile, the entries for a list.
Ok(value) == [ok |-> TRUE, err |-> "", value |-> value]
Err(message) == [ok |-> FALSE, err |-> message, value |-> <<>>]

\* What the handler returns once its critical section (and persist, whatever its
\* outcome) is behind it.
Returns(c, u, before) ==
    CASE c.op = "save_profile" -> Ok(<<LaunchProfile(u, c.name, c.opts, c.windows)>>)
      [] c.op = "delete_profile" /\ ~Persists(c, <<>>, before) -> Err("profile not found")
      [] c.op = "list_recent_directories" -> Ok(list_recent_directories(before.recents))
      [] OTHER -> Ok(<<>>)

\* What a handler returns when its arguments do not validate.
Rejects(c) ==
    Err(IF c.op = "save_profile" THEN "profile name required"
        ELSE IF c.op = "search" /\ Trim(c.query) = <<>> THEN "query required"
        ELSE "empty path")

NoResult == [ok |-> FALSE, err |-> "no call has returned", value |-> <<>>]

NoLocal ==
    [normalized |-> <<>>, uuid |-> 0, before |-> EmptyState, ret |-> NoResult,
     json |-> EmptyState, wrote |-> FALSE, results |-> <<>>, pos |-> 0]

NoLast ==
    [call |-> NoCall, normalized |-> <<>>, uuid |-> 0, before |-> EmptyState,
     ret |-> NoResult]

\* The state file: absent; present with an aggregate in it; present and not JSON
\* of a PersistedState.
NoFile == [exists |-> FALSE, parses |-> FALSE, state |-> EmptyState]
File(state) == [exists |-> TRUE, parses |-> TRUE, state |-> state]
Corrupt == [exists |-> TRUE, parses |-> FALSE, state |-> EmptyState]

\* Store::initialize(): the results it can have on a state file. create_dir_all and
\* read_to_string may fail on any file system.
initialize(file) ==
    IF ~file.exists THEN {Ok(<<EmptyState>>), Err("create_dir_all failed")}
    ELSE IF file.parses THEN {Ok(<<file.state>>), Err("failed to read state file")}
    ELSE {Err("failed to parse state file"), Err("failed to read state file")}

\* Result::unwrap_or_default: Store::default() is the empty aggregate, with the
\* same path as Store::initialize().
unwrap_or_default(r) == IF r.ok THEN r.value[1] ELSE EmptyState

\* The Lazy cell of STORE: state "uninit", "running" (the thread `owner` runs the
\* closure) or "init"; runs counts the runs of the closure; fellback says that
\* Store::initialize() failed.
Cell(state, owner, runs, fellback) ==
    [state |-> state, owner |-> owner, runs |-> runs, fellback |-> fellback]

\* Mutant: a thread that finds the cell not yet initialised runs the closure.
ClaimableUnsynchronized(c) == c.state # "init"

\* Lazy::force: only the thread that finds the cell untouched runs the closure,
\* the others wait until the cell is initialised.
Claimable(c) == c.state = "uninit"

\* The directories under the search root as the walker yields them: "a", "ab",
\* "ba", "b", a file "a", an entry "a" whose metadata cannot be read, and a
\* directory whose name is not UTF-8.
Entries ==
    {WalkEntry(Some(<<97>>), "dir"), WalkEntry(Some(<<97, 98>>), "dir"),
     WalkEntry(Some(<<98, 97>>), "dir"), WalkEntry(Some(<<98>>), "dir"),
     WalkEntry(Some(<<97>>), "file"), WalkEntry(Some(<<97>>), "err"),
     WalkEntry(None, "dir")}

RECURSIVE SeqsUpTo(_, _)
SeqsUpTo(S, n) ==
    IF n = 0 THEN {<<>>}
    ELSE LET shorter == SeqsUpTo(S, n - 1)
         IN  shorter \cup {Append(s, e) : s \in shorter, e \in S}

Trees == SeqsUpTo(Entries, MaxEntries)

\* The tree the threads of the program search: the root, a directory "a".
HomeTree == <<WalkEntry(Some(<<97>>), "dir")>>

-----------------------------------------------------------------------------
(* The program: threads calling the handlers of the process-wide STORE *)

Init ==
    /\ store = EmptyState
    /\ disk = NoFile
    /\ lock = 0
    /\ pc = [t \in Threads |-> "idle"]
    /\ call = [t \in Threads |-> NoCall]
    /\ local = [t \in Threads |-> NoLocal]
    /\ result = [t \in Threads |-> NoResult]
    /\ now = 0
    /\ ticks = 0
    /\ last = NoLast
    /\ touched = <<>>
    /\ cell = Cell("init", 0, 1, FALSE)
    /\ tree = HomeTree

\* The calls the threads make: every handler, with arguments that validate and
\* arguments that do not.
ThreadCalls ==
    PathCalls("add_favorite", {<<32>>, <<47, 97>>})
        \cup PathCalls("remove_favorite", {<<32>>, <<47, 97>>})
        \cup PathCalls("touch_recent", {<<32>>, <<47, 97>>})
        \cup SetTagCalls({<<47, 97>>}, {<<87>>}, {Some(<<35, 102>>)})
        \cup SetTagCalls({<<32>>}, {<<119>>}, {None})
        \cup RemoveTagCalls({<<32>>, <<47, 97>>}, {<<119>>})
        \cup SaveProfileCalls({None}, {<<120>>}, {NoOpts}, {None})
        \cup SaveProfileCalls({Some(1)}, {<<32>>, <<32, 121, 32>>}, {NoOpts}, {Some(5)})
        \cup DeleteProfileCalls({1})
        \cup ReadCalls
        \cup SearchCalls({<<47, 97>>}, {<<32>>, <<97>>}, {1})
        \cup SearchCalls({<<32>>}, {<<97>>}, {1})

\* The history of a handler that went through its critical section, or was turned
\* away before it.
Record(c, n, u, ret) ==
    /\ last' = [call |-> c, normalized |-> n, uuid |-> u, before |-> store, ret |-> ret]
    /\ touched' = IF c.op = "touch_recent" /\ ret.ok
                  THEN Append(touched, RecentEntry(n, now))
                  ELSE touched

\* A thread enters a handler. Arguments that do not validate make it return Err
\* before it touches STORE.
Enter(t, calls) ==
    /\ pc[t] = "idle"
    /\ \E c \in calls :
        IF Validates(c)
        THEN /\ call' = [call EXCEPT ![t] = c]
             /\ pc' = [pc EXCEPT ![t] = IF c.op = "search" THEN "walk" ELSE "lock"]
             /\ local' = [local EXCEPT ![t] = [NoLocal EXCEPT !.normalized = Normalized(c)]]
             /\ result' = [result EXCEPT ![t] = NoResult]
        ELSE /\ result' = [result EXCEPT ![t] = Rejects(c)]
             /\ UNCHANGED <<pc, call, local>>
    /\ UNCHANGED <<store, disk, lock, now, ticks, last, touched, cell, tree>>

Call(t) == Enter(t, ThreadCalls)

\* STORE.inner.lock() / self.inner.lock(): parking_lot's Mutex is not reentrant, the
\* caller waits until the lock is free, whoever holds it.
Acquire(t) ==
    /\ pc[t] \in {"lock", "persist"}
    /\ cell.state = "init"
    /\ lock = 0
    /\ lock' = t
    /\ pc' = [pc EXCEPT ![t] = IF pc[t] = "lock" THEN "locked" ELSE "persist_locked"]
    /\ UNCHANGED <<store, disk, call, local, result, now, ticks, last, touched, cell, tree>>

\* persist, holding its guard `inner`: to_string_pretty(&*inner) ...
PersistSerialize(t) ==
    /\ local' = [local EXCEPT ![t].json = store]
    /\ pc' = [pc EXCEPT ![t] = "persist_write"]
    /\ UNCHANGED <<store, disk, lock, call, result, now, ticks, last, touched, cell, tree>>

\* ... and fs::write(&self.path, json), the guard still alive. create_dir_all or the
\* write may fail, and then the file is left as it was.
PersistWrite(t, ok) ==
    /\ disk' = IF ok THEN File(local[t].json) ELSE disk
    /\ local' = [local EXCEPT ![t].wrote = ok]
    /\ pc' = [pc EXCEPT ![t] = "persist_done"]
    /\ UNCHANGED <<store, lock, call, result, now, ticks, last, touched, cell, tree>>

\* A read, holding its temporary guard: clone, and the guard drops with the statement.
ReadSection(t) ==
    /\ local' = [local EXCEPT ![t].before = store,
                              ![t].ret = Returns(call[t], 0, store)]
    /\ lock' = 0
    /\ pc' = [pc EXCEPT ![t] = "ret"]
    /\ UNCHANGED <<store, disk, call, result, now, ticks, last, touched, cell, tree>>

\* A mutating handler, holding its guard `store`: the in-memory change, then on to
\* STORE.persist() or to the return, the guard still alive.
WriteSection(t, u) ==
    LET c == call[t]
        n == local[t].normalized
    IN  /\ store' = Effect(c, n, u, store, now)
        /\ Record(c, n, u, Returns(c, u, store))
        /\ local' = [local EXCEPT ![t].uuid = u, ![t].before = store,
                                  ![t].ret = Returns(c, u, store)]
        /\ pc' = [pc EXCEPT ![t] = IF Persists(c, n, store) THEN "persist" ELSE "ret"]
        /\ UNCHANGED <<disk, lock, call, result, now, ticks, cell, tree>>

\* The statements a thread runs next under the guard it holds.
Critical(t) ==
    /\ pc[t] \in {"locked", "persist_locked", "persist_write"}
    /\ IF pc[t] = "persist_locked" THEN PersistSerialize(t)
       ELSE IF pc[t] = "persist_write" THEN \E ok \in BOOLEAN : PersistWrite(t, ok)
       ELSE IF call[t].op \in MutatingOps
       THEN \E u \in (IF call[t].op = "save_profile"
                      THEN ProfileIds(call[t], store.profiles) ELSE {0}) :
               WriteSection(t, u)
       ELSE ReadSection(t)

\* A function returns and its guard, if it still holds one, is dropped: persist back
\* into its handler (the Result discarded by .ok()), a handler back to its caller.
Return(t) ==
    /\ pc[t] \in {"persist_done", "ret"}
    /\ lock' = IF lock = t THEN 0 ELSE lock
    /\ IF pc[t] = "persist_done"
       THEN /\ pc' = [pc EXCEPT ![t] = "ret"]
            /\ UNCHANGED <<call, local, result>>
       ELSE /\ pc' = [pc EXCEPT ![t] = "idle"]
            /\ result' = [result EXCEPT ![t] = local[t].ret]
            /\ call' = [call EXCEPT ![t] = NoCall]
            /\ local' = [local EXCEPT ![t] = NoLocal]
    /\ UNCHANGED <<store, disk, now, ticks, last, touched, cell, tree>>

\* A second passes.
Tick ==
    /\ ticks < MaxTicks
    /\ ticks' = ticks + 1
    /\ now' = now + 1
    /\ UNCHANGED <<store, disk, lock, pc, call, local, result, last, touched, cell, tree>>

\* search_directories: one turn of its loop over the walker, or, the walker
\* exhausted or the candidates full, the ranking and the return value. It never
\* touches STORE.
Walk(t) ==
    /\ pc[t] = "walk"
    /\ IF local[t].pos < Len(tree) /\ ~WalkFull(local[t].results, call[t].limit)
       THEN /\ local' = [local EXCEPT
                            ![t].pos = @ + 1,
                            ![t].results = visit(@, tree[local[t].pos + 1],
                                                 local[t].pos + 1, call[t].query)]
            /\ UNCHANGED <<pc, last, touched>>
       ELSE /\ local' = [local EXCEPT
                            ![t].ret = Ok(rank_and_truncate(local[t].results,
                                                            call[t].limit))]
            /\ pc' = [pc EXCEPT ![t] = "ret"]
            /\ UNCHANGED <<last, touched>>
    /\ UNCHANGED <<store, disk, lock, call, result, now, ticks, cell, tree>>

Step(t) == Call(t) \/ Acquire(t) \/ Critical(t) \/ Return(t) \/ Walk(t)

Next == Tick \/ \E t \in Threads : Step(t)

Spec == Init /\ [][Next]_vars

\* The operating system schedules every thread that can run.
FairSpec == Spec /\ \A t \in Threads : WF_vars(Step(t))

-----------------------------------------------------------------------------
(* The program from its start: STORE is initialised on its first access *)

\* A state file left by an earlier run or written by hand: one favorite, "/a".
SavedState == [EmptyState EXCEPT !.favorites = <<<<47, 97>>>>]

\* Before any thread has touched STORE.
Startup ==
    /\ store = EmptyState
    /\ disk \in {NoFile, Corrupt, File(SavedState)}
    /\ lock = 0
    /\ pc = [t \in Threads |-> "idle"]
    /\ call = [t \in Threads |-> NoCall]
    /\ local = [t \in Threads |-> NoLocal]
    /\ result = [t \in Threads |-> NoResult]
    /\ now = 0
    /\ ticks = 0
    /\ last = NoLast
    /\ touched = <<>>
    /\ cell = Cell("uninit", 0, 0, FALSE)
    /\ tree = HomeTree

\* A thread dereferences STORE and finds the cell untouched: it starts the closure.
Force(t) ==
    /\ pc[t] = "lock"
    /\ Claimable(cell)
    /\ cell' = Cell("running", t, cell.runs + 1, FALSE)
    /\ UNCHANGED <<store, disk, lock, pc, call, local, result, now, ticks, last, touched, tree>>

\* The closure returns and its value is installed:
\* Store::initialize().unwrap_or_default().
Install(t) ==
    /\ cell.state = "running"
    /\ cell.owner = t
    /\ \E r \in initialize(disk) :
          /\ store' = unwrap_or_default(r)
          /\ cell' = Cell("init", 0, cell.runs, ~r.ok)
    /\ UNCHANGED <<disk, lock, pc, call, local, result, now, ticks, last, touched, tree>>

Boot(t) == Force(t) \/ Install(t)

StartupNext == \E t \in Threads : Boot(t) \/ Step(t)

StartupSpec == Startup /\ [][StartupNext]_vars

FairStartupSpec == StartupSpec /\ \A t \in Threads : WF_vars(Boot(t) \/ Step(t))

-----------------------------------------------------------------------------
(* The handlers one after another.                                         *)
(*                                                                         *)
(* The lock serialises the critical sections, and a critical section is    *)
(* all a handler does to the aggregate. The specifications below apply     *)
(* whole critical sections to the aggregate one after another, from the    *)
(* empty store, with nothing assumed about what happens between them:      *)
(* every aggregate the threads of Spec can produce is produced here too.   *)

\* One call from its validation to the end of its critical section.
Handle(c) ==
    /\ IF Validates(c)
       THEN \E u \in (IF c.op = "save_profile" THEN ProfileIds(c, store.profiles) ELSE {0}) :
               /\ store' = Effect(c, Normalized(c), u, store, now)
               /\ Record(c, Normalized(c), u, Returns(c, u, store))
       ELSE /\ Record(c, <<>>, 0, Rejects(c))
            /\ UNCHANGED store
    /\ UNCHANGED <<disk, lock, pc, call, local, result, now, ticks, cell, tree>>

FavoriteCalls ==
    PathCalls("add_favorite", RawPaths) \cup PathCalls("remove_favorite", RawPaths)

Favorites == \E c \in FavoriteCalls : Handle(c)

FavoritesSpec == Init /\ [][Favorites]_vars

TagCalls ==
    SetTagCalls({<<32>>, <<47, 97>>, <<47, 108>>}, Tags, {None, Some(<<35, 102>>)})
        \cup SetTagCalls({<<47, 98>>}, {<<87>>}, {None})
        \cup RemoveTagCalls({<<32>>, <<47, 97>>}, Tags)
        \cup RemoveTagCalls({<<47, 98>>}, {<<119>>})

TagsNext == \E c \in TagCalls : Handle(c)

TagsSpec == Init /\ [][TagsNext]_vars

ProfileCalls ==
    SaveProfileCalls({None} \cup {Some(u) : u \in Uuids}, {<<120>>}, ProfileOpts,
                     {None, Some(0), Some(255)})
        \cup SaveProfileCalls({None} \cup {Some(u) : u \in Uuids}, {<<32>>, <<32, 121, 32>>},
                              {NoOpts}, {Some(5)})
        \cup DeleteProfileCalls(Uuids)

Profiles == \E c \in ProfileCalls : Handle(c)

ProfilesSpec == Init /\ [][Profiles]_vars

\* Raw paths " ", "/a", "/b", "~", "/c", "/d": more distinct paths than the cap.
RecentCalls ==
    PathCalls("touch_recent",
              {<<32>>, <<47, 97>>, <<47, 98>>, <<126>>, <<47, 99>>, <<47, 100>>})

Recents ==
    \/ Tick
    \/ /\ Len(touched) < MaxTouches
       /\ \E c \in RecentCalls : Handle(c)

RecentsSpec == Init /\ [][Recents]_vars

-----------------------------------------------------------------------------
(* One caller searching, over every tree of the bound *)

SearchInit ==
    /\ store = EmptyState
    /\ disk = NoFile
    /\ lock = 0
    /\ pc = [t \in Threads |-> "idle"]
    /\ call = [t \in Threads |-> NoCall]
    /\ local = [t \in Threads |-> NoLocal]
    /\ result = [t \in Threads |-> NoResult]
    /\ now = 0
    /\ ticks = 0
    /\ last = NoLast
    /\ touched = <<>>
    /\ cell = Cell("init", 0, 1, FALSE)
    /\ tree \in Trees

\* Roots "/a" and " ", queries " " and "a", limits 0..MaxLimit and usize::MAX.
SearchArgs == SearchCalls({<<47, 97>>, <<32>>}, {<<32>>, <<97>>}, 0..MaxLimit \cup {UsizeMax})

SearchNext == Enter(1, SearchArgs) \/ Walk(1) \/ Return(1)

SearchSpec == SearchInit /\ [][SearchNext]_vars

-----------------------------------------------------------------------------
(* Properties *)

Range(s) == {s[i] : i \in 1..Len(s)}

\* C1: every store operation runs to completion: a call in progress that no other
\* thread keeps from the lock can always take its next step, so it never waits for
\* the store lock forever.
C1_RunsToCompletion ==
    \A t \in Threads : (pc[t] # "idle" /\ lock \in {0, t}) => ENABLED Step(t)

\* C2: the store lock is never held across persistence: the thread does not hold it
\* when its handler starts STORE.persist(), nor when persist writes the file.
C2_LockFreeWhilePersisting ==
    \A t \in Threads : pc[t] \in {"persist", "persist_write"} => lock # t

\* C3: every mutation is visible and durable before its call returns: a handler that
\* has changed the store and goes on to persist returns success, and unless the
\* write failed the file then holds the aggregate with the mutation.
C3_DurableBeforeReturn ==
    \A t \in Threads :
        (pc[t] = "persist") ~>
            (pc[t] = "idle" /\ result[t].ok /\ (local[t].wrote => disk = File(store)))

NoDuplicates(s) == \A i, j \in 1..Len(s) : s[i] = s[j] => i = j

\* The last handler was op, and its arguments validated.
LastWas(op) == last.call.op = op /\ Validates(last.call)

RecentPaths(recents) == [i \in 1..Len(recents) |-> recents[i].path]

\* C5: recents never holds more than the cap, nor two entries for one path.
C5_RecentsBounded ==
    /\ Len(store.recents) <= RecentCap
    /\ NoDuplicates(RecentPaths(store.recents))

\* More distinct paths than the cap have been touched, and recents is full.
C5_Witness ==
    /\ Cardinality(Range(RecentPaths(touched))) > RecentCap
    /\ Len(store.recents) = RecentCap

\* The touches so far were of distinct paths, each at a later second than the one before.
IncreasingDistinct ==
    /\ NoDuplicates(RecentPaths(touched))
    /\ \A i \in 1..(Len(touched) - 1) :
          touched[i].last_opened_utc < touched[i + 1].last_opened_utc

\* The last n touches, the latest first.
LatestFirst(n) == [i \in 1..n |-> touched[Len(touched) + 1 - i]]

\* What touch_recent had in hand before it cut: the other paths' entries and the new one.
Pushed ==
    Append(SelectSeq(last.before.recents, LAMBDA entry : entry.path # last.normalized),
           RecentEntry(last.normalized, touched[Len(touched)].last_opened_utc))

\* C6: a touch_recent that pushes recents past the cap evicts one entry, and none
\* that stays is older than it; after more touches than the cap, of distinct paths in
\* increasing time order, recents holds exactly the cap's worth of latest touches and
\* list_recent_directories returns them latest first.
C6_EvictsOldest ==
    /\ (LastWas("touch_recent") /\ Len(Pushed) > RecentCap) =>
          /\ Len(store.recents) = RecentCap
          /\ Range(store.recents) \subseteq Range(Pushed)
          /\ \A gone \in Range(Pushed) \ Range(store.recents) :
                \A kept \in Range(store.recents) :
                    gone.last_opened_utc <= kept.last_opened_utc
    /\ (IncreasingDistinct /\ Len(touched) > RecentCap) =>
          /\ Range(store.recents) = Range(LatestFirst(RecentCap))
          /\ list_recent_directories(store.recents) = LatestFirst(RecentCap)

\* More distinct paths than the cap have been touched in increasing time order.
C6_Witness == IncreasingDistinct /\ Len(touched) > RecentCap

\* C7: the path touched last is the first that list_recent_directories returns; two
\* touches, of a and then of b, list as [b, a] with b's time the greater.
C7_LastTouchedFirst ==
    LET listed == list_recent_directories(store.recents)
    IN  /\ touched # <<>> => listed[1].path = touched[Len(touched)].path
        /\ (Len(touched) = 2 /\ touched[1].path # touched[2].path) =>
              /\ listed = <<touched[2], touched[1]>>
              /\ touched[2].last_opened_utc > touched[1].last_opened_utc

\* The tag names are equal once their ASCII letters are lowered.
SameTagName(a, b) ==
    [i \in 1..Len(a) |-> ToAsciiLower(a[i])] = [i \in 1..Len(b) |-> ToAsciiLower(b[i])]

\* The places of the tag entries for the path whose tag has this name.
TagPlaces(tags, path, tag) ==
    {i \in 1..Len(tags) : tags[i].path = path /\ SameTagName(tags[i].tag, tag)}

\* C8: no two tag entries share a path and a tag name, case aside; after set_tag
\* there is exactly one entry for the path and tag name, with the color given (the
\* default color when none is given).
C8_TagsUnique ==
    /\ \A i, j \in 1..Len(store.tags) :
          (store.tags[i].path = store.tags[j].path
              /\ SameTagName(store.tags[i].tag, store.tags[j].tag)) => i = j
    /\ LastWas("set_tag") =>
          /\ Cardinality(TagPlaces(store.tags, last.normalized, last.call.tag)) = 1
          /\ \A i \in TagPlaces(store.tags, last.normalized, last.call.tag) :
                store.tags[i].color = UnwrapOr(last.call.color, DefaultColor)

\* set_tag has met an entry of the same path whose tag differs in case only, and
\* has given it another color.
C8_Witness ==
    /\ LastWas("set_tag")
    /\ \E i \in TagPlaces(last.before.tags, last.normalized, last.call.tag) :
          /\ last.before.tags[i].tag # last.call.tag
          /\ last.before.tags[i].color # store.tags[i].color
    /\ last.call.color # None
    /\ Len(store.tags) = 2

ProfileIdsOf(profiles) == [i \in 1..Len(profiles) |-> profiles[i].id]

\* The stored profile with the id the last save_profile used.
Stored == store.profiles[CHOOSE i \in 1..Len(store.profiles) : store.profiles[i].id = last.uuid]

C10_ProfileIdsUnique ==
    /\ NoDuplicates(ProfileIdsOf(store.profiles))
    /\ LastWas("save_profile") =>
          LET before == last.before.profiles
              saved == last.ret.value[1]
          IN  IF last.call.id # None /\ last.uuid \in Range(ProfileIdsOf(before))
              THEN /\ ProfileIdsOf(store.profiles) = ProfileIdsOf(before)
                   /\ \A i \in 1..Len(before) :
                         store.profiles[i] = IF before[i].id = last.uuid THEN saved
                                             ELSE before[i]
              ELSE /\ store.profiles = Append(before, saved)
                   /\ last.call.id = None => saved.id \notin Range(ProfileIdsOf(before))

\* save_profile has replaced the first of two profiles by another record.
C10_Witness ==
    /\ LastWas("save_profile")
    /\ Len(last.before.profiles) = 2
    /\ last.before.profiles[1].id = last.uuid
    /\ store.profiles[1] # last.before.profiles[1]
    /\ store.profiles[2] = last.before.profiles[2]

\* The sequence s without its k-th element.
Without(s, k) == SubSeq(s, 1, k - 1) \o SubSeq(s, k + 1, Len(s))

C12_WriteFailureSwallowed ==
    \A t \in Threads :
        (pc[t] = "persist") ~> (pc[t] = "ret" /\ local[t].ret.ok)

\* The thread's search has its return value in hand.
Searched(t) == call[t].op = "search" /\ pc[t] = "ret"

\* C13: the limit counts as at least 1: a search with limit 0 returns what the same
\* search with limit 1 returns.
C13_LimitAtLeastOne ==
    \A t \in Threads :
        (Searched(t) /\ call[t].limit = 0) =>
            local[t].ret = Ok(search_directories(tree, call[t].query, 1))

\* The entry of the tree is a directory that the query matches.
MatchingDir(entry, query) ==
    /\ entry.md = "dir"
    /\ entry.name # None
    /\ fuzzy_match(UnwrapOr(entry.name, <<>>), query) # None

\* The results are in descending order of score, equal scores in ascending order of name.
Ranked(r) ==
    \A i, j \in 1..Len(r) :
        i < j => \/ r[i].score > r[j].score
                 \/ r[i].score = r[j].score /\ ~StrLess(r[j].name, r[i].name)

\* C14: search results are in descending order of score, ties in ascending order of
\* name; they hold only directories whose name the query matches, each once; a query
\* that matches nothing returns Ok with no entry; and the results are those that the
\* tree, the query and the limit determine, the same whenever the search is made.
C14_SearchRanked ==
    \A t \in Threads :
        Searched(t) =>
            LET r == local[t].ret.value
                query == call[t].query
            IN  /\ local[t].ret.ok
                /\ Ranked(r)
                /\ \A i \in 1..Len(r) :
                      /\ r[i].path \in 1..Len(tree)
                      /\ MatchingDir(tree[r[i].path], query)
                      /\ tree[r[i].path].name = Some(r[i].name)
                      /\ fuzzy_match(r[i].name, query) = Some(r[i].score)
                /\ \A i, j \in 1..Len(r) : r[i].path = r[j].path => i = j
                /\ (\A k \in 1..Len(tree) : ~MatchingDir(tree[k], query)) => r = <<>>
                /\ r = search_directories(tree, query, call[t].limit)

\* Two directories with the same score have been returned in the order of their
\* names, against the order of the walk, from a tree that also holds a file.
C14_Witness ==
    \E t \in Threads :
        /\ Searched(t)
        /\ Len(local[t].ret.value) = 2
        /\ local[t].ret.value[1].score = local[t].ret.value[2].score
        /\ local[t].ret.value[1].path > local[t].ret.value[2].path
        /\ \E k \in 1..Len(tree) : tree[k].md = "file"

\* C15: STORE is initialised once: the closure runs at most once however many threads
\* make their first access together, no thread is inside STORE before its value is
\* installed, and once installed the cell never changes.
C15_InitializedOnce ==
    /\ cell.runs <= 1
    /\ cell.state = "init" => cell.runs = 1
    /\ \A t \in Threads :
          pc[t] \notin {"idle", "lock", "walk", "ret"} => cell.state = "init"
    /\ lock # 0 => cell.state = "init"

\* Every thread is at its first access of STORE and one of them runs the closure.
C15_Witness ==
    /\ cell.state = "running"
    /\ \A t \in Threads : pc[t] = "lock"

\* C16: after a failed initialization the store is empty and stays unpersisted: a
\* mutating call made then returns Ok, and the state file that could not be read is
\* still as it was.
C16_FallbackUnpersisted ==
    \A t \in Threads :
        (cell.fellback /\ disk = Corrupt /\ pc[t] = "persist")
            ~> (pc[t] = "idle" /\ result[t].ok /\ disk = Corrupt)

\* The thread's add_favorite leaves its critical section in this step.
AddFavoriteLeaves(t) ==
    call[t].op = "add_favorite" /\ pc[t] = "locked" /\ pc'[t] # "locked"

\* C17 as stated: add_favorite goes on to STORE.persist() after its in-memory step,
\* the path pushed or already there.
C17_AlwaysPersists ==
    [][\A t \in Threads : AddFavoriteLeaves(t) => pc'[t] = "persist"]_vars

\* C17 as amended: add_favorite goes on to STORE.persist() when it has pushed the
\* path, and returns without it when the path was already a favorite.
C17_PersistsWhenPushed ==
    [][\A t \in Threads :
          AddFavoriteLeaves(t) =>
              IF local[t].normalized \in Range(store.favorites)
              THEN pc'[t] = "ret" /\ store' = store
              ELSE pc'[t] = "persist" /\ store'.favorites
                                            = Append(store.favorites, local[t].normalized)]_vars

\* add_favorite of a path that is a favorite already is about to return, and has
\* not been to persist.
C17_Witness ==
    \E t \in Threads :
        /\ call[t].op = "add_favorite"
        /\ pc[t] = "ret"
        /\ local[t].normalized \in Range(local[t].before.favorites)
        /\ store = local[t].before

\* C18: set_tag on a path and tag that an entry matches, case aside, changes that
\* entry's color and nothing else: its tag text, its place, the number of entries and
\* every other entry stay; with no match it appends one entry with the color given,
\* or #0a84ff when none is given.
C18_SetTagFrame ==
    LastWas("set_tag") =>
        LET before == last.before.tags
            places == TagPlaces(before, last.normalized, last.call.tag)
            color == IF last.call.color = None THEN <<35, 48, 97, 56, 52, 102, 102>>
                     ELSE last.call.color[1]
        IN  /\ store = [last.before EXCEPT !.tags = store.tags]
            /\ IF places # {}
               THEN /\ Len(store.tags) = Len(before)
                    /\ \E k \in places :
                          /\ store.tags[k] = [before[k] EXCEPT !.color = color]
                          /\ \A i \in 1..Len(before) : i # k => store.tags[i] = before[i]
               ELSE store.tags = Append(before, [path |-> last.normalized,
                                                 tag |-> last.call.tag, color |-> color])

\* set_tag has recolored the first of two entries, whose tag is written in the
\* other case than the argument, and the entry has kept its own writing.
C18_Witness ==
    /\ LastWas("set_tag")
    /\ Len(last.before.tags) = 2
    /\ 1 \in TagPlaces(last.before.tags, last.normalized, last.call.tag)
    /\ last.before.tags[1].tag # last.call.tag
    /\ store.tags[1].tag = last.before.tags[1].tag
    /\ store.tags[1].color # last.before.tags[1].color

\* Every character of the string is white space.
Blank(s) == \A i \in 1..Len(s) : s[i] \in Whitespace

\* The arguments that must not pass: a blank path, a blank profile name, a blank query.
Invalid(c) ==
    \/ c.op \in PathOps /\ Blank(c.path)
    \/ c.op = "save_profile" /\ Blank(c.name)
    \/ c.op = "search" /\ Blank(c.query)

\* C19: a call with a blank path, a blank profile name or a blank query never gets
\* past its validation, and the call that is turned away returns an error and changes
\* nothing: not the store, not the file, not the lock, no thread's place.
C19_ValidationLeavesStore ==
    [][\A t \in Threads :
          /\ (pc[t] = "idle" /\ pc'[t] # "idle") => ~Invalid(call'[t])
          /\ (pc[t] = "idle" /\ pc'[t] = "idle" /\ result'[t] # result[t]) =>
                /\ result'[t] \in {Err("empty path"), Err("profile name required"),
                                   Err("query required")}
                /\ store' = store /\ disk' = disk /\ lock' = lock /\ pc' = pc]_vars

\* A search with a blank query has been turned away while another thread holds the
\* lock in the middle of a mutation.
C19_Witness ==
    \E t, u \in Threads :
        /\ result[t] = Err("query required")
        /\ pc[t] = "idle"
        /\ pc[u] = "persist"
        /\ store # EmptyState

\* C20: while search walks, its candidates never number more than twice the limit,
\* and what it returns never numbers more than the limit.
C20_CandidatesBounded ==
    /\ \A t \in Threads :
          (call[t].op = "search" /\ pc[t] \in {"walk", "ret"}) =>
              (Len(local[t].results) + 1) \div 2 <= call[t].limit
    /\ \A t \in Threads : Searched(t) => Len(local[t].ret.value) <= call[t].limit

\* The walk has twice the limit of candidates in hand and entries left to look at.
C20_Witness ==
    \E t \in Threads :
        /\ pc[t] = "walk"
        /\ call[t].limit \in 1..MaxLimit
        /\ Len(local[t].results) = 2 * call[t].limit
        /\ local[t].pos < Len(tree)

\* C21: after touch_recent of a path has gone through, recents holds an entry for
\* that path, whatever recents held before and whatever the clock returned.
C21_TouchedIsPresent ==
    LastWas("touch_recent") => last.normalized \in Range(RecentPaths(store.recents))

\* C22: the state file mirrors the aggregate: a persist that has been called gets to
\* the end of its write, and unless the write failed the file then holds the
\* aggregate as it is in memory, not a snapshot from before a later mutation.
C22_FileMirrorsStore ==
    \A t \in Threads :
        (pc[t] = "persist") ~>
            (pc[t] = "persist_done" /\ (local[t].wrote => disk = File(store)))

=============================================================================
